---- MODULE Spec2Model ----
(***************************************************************************)
(* State-machine model of the InterviewClient React component              *)
(* (src/src/components/InterviewClient.tsx) as mounted by App              *)
(* (src/src/App.tsx): the socket lifecycle with its reconnect timer, the   *)
(* inbound message dispatcher, the text submit handler and the audio       *)
(* record / stop / encode / send pipeline.                                 *)
(*                                                                         *)
(* One action per handler or callback.  The browser's event loop is the    *)
(* scheduler: every handler runs to completion, and the environment (the   *)
(* server, the network, the user, the media devices, the timer wheel)      *)
(* chooses which callback runs next.                                       *)
(*                                                                         *)
(* sent and thrown are the outputs of the handler that ran last: what it   *)
(* put on the wire and the error that escaped it.  A state setter is an    *)
(* assignment, also once the component has unmounted.  Spec lets every     *)
(* handler run; SpecChat and SpecAudio are the sessions of a user who      *)
(* types and of a user who speaks, each with the whole connection          *)
(* lifecycle.                                                              *)
(***************************************************************************)
EXTENDS Integers, Sequences, FiniteSets, TLC

\* ------------------------------------------------------------------ bounds
MaxSockets   == 2   \* sockets the component may create in one run
MaxRecorders == 2   \* getUserMedia requests (granted or pending) in one run
MaxMessages  == 2   \* length of the message list
MaxPage      == 2   \* largest page number

\* ------------------------------------------------------- program constants
ReconnectDelay == 3000   \* setTimeout(connectWebSocket, 3000)
NormalClosure  == 1000   \* event.code !== 1000
Null           == "null"

\* Close codes the environment may deliver: normal closure, no status
\* received (close() without a code), abnormal closure.
AbnormalClosure == 1006

\* Granularity of the modelled clock: a timer is due after two ticks.
TickMs == ReconnectDelay \div 2
CloseCodes      == {NormalClosure, 1005, AbnormalClosure}

ItemIds   == {"q1", "q2"}
ChatItems == [id : ItemIds]

\* App: process.env.REACT_APP_ACCESS_TOKEN || localStorage.getItem('accessToken')
\* || undefined.  An unset or empty value is falsy.
AppAccessToken(envToken, storedToken) ==
  IF envToken \notin {Null, ""} THEN envToken
  ELSE IF storedToken \notin {Null, ""} THEN storedToken
  ELSE Null

\* The tokens the environment and the local storage may hold.
EnvTokens    == {Null, "", "tok"}
StoredTokens == {Null, "tok"}

\* Values of the text input, as sequences of characters.
Inputs == {<<>>, <<" ">>, <<"a">>, <<" ", "a", " ">>}

AudioPrefix == "data:audio/wav;base64,"

\* Event tags the server may send; "pong" stands for any unhandled tag.
ItemEvents == {"user_response_processed", "new_question"}
OtherTags  == {"pong"}

VARIABLES
  phase,                 \* "rendered" | "mounted" | "unmounted"
  accessToken,           \* prop of InterviewClient, Null when absent
  urlValid,              \* whether new WebSocket(url) accepts the configured url
  status, messages, userInput, isRecording, currentPage, hasMore,  \* useState
  wsRef, mediaRecorderRef, audioChunksRef, currentChatItemIdRef,   \* useRef
  sockets,               \* every WebSocket created so far
  timers,                \* pending setTimeout callbacks: remaining ms of each
  recorders,             \* every MediaRecorder created so far, with its stream
  pendingGUM,            \* getUserMedia promises not yet settled
  sent,                  \* envelopes put on the wire by the last handler run
  thrown                 \* error that escaped the last handler run, or "none"

uiVars   == <<status, messages, userInput, isRecording, currentPage, hasMore>>
refVars  == <<wsRef, mediaRecorderRef, audioChunksRef, currentChatItemIdRef>>
envVars  == <<phase, accessToken, urlValid>>
vars     == <<phase, accessToken, urlValid, status, messages, userInput,
              isRecording, currentPage, hasMore, wsRef, mediaRecorderRef,
              audioChunksRef, currentChatItemIdRef, sockets, timers, recorders,
              pendingGUM, sent, thrown>>

\* ----------------------------------------------------------------- helpers

\* String.prototype.trim on a sequence of characters.
RECURSIVE TrimStart(_)
TrimStart(s) ==
  IF s # <<>> /\ Head(s) = " " THEN TrimStart(Tail(s)) ELSE s

RECURSIVE TrimEnd(_)
TrimEnd(s) ==
  IF s # <<>> /\ s[Len(s)] = " " THEN TrimEnd(SubSeq(s, 1, Len(s) - 1)) ELSE s

\* Mutant of Trim: only the leading blanks are removed.
TrimLeadingOnly(s) == TrimStart(s)

Trim(s) == TrimEnd(TrimStart(s))

\* JavaScript truthiness of a string / of a nullable reference.
Truthy(s) == s # <<>>
Present(x) == x # Null

\* FileReader.readAsDataURL of a Blob: the media-type prefix, then the base64
\* text of each part in order.
ReadAsDataURL(blob) ==
  <<"data:" \o blob.type \o ";base64,">> \o
  [i \in 1..Len(blob.parts) |-> <<"b64", blob.parts[i]>>]

\* base64String.replace('data:audio/wav;base64,', '')
StripAudioPrefix(s) ==
  IF s # <<>> /\ s[1] = AudioPrefix THEN Tail(s) ELSE s

\* new Blob(audioChunksRef.current, { type: 'audio/wav' })
NewBlob(chunks) == [type |-> "audio/wav", parts |-> chunks]

\* Outbound envelopes {action, payload}.
Authenticate(token) == [action |-> "authenticate", payload |-> [token |-> token]]

\* Mutant of GetChatItems: the request names the page before the given one.
GetChatItemsPrevious(page) ==
  [action |-> "get_chat_items", payload |-> [page |-> page - 1]]

GetChatItems(page)  == [action |-> "get_chat_items", payload |-> [page |-> page]]
SubmitUserResponse(id, response) ==
  [action |-> "submit_user_response",
   payload |-> [chat_item_id |-> id, response |-> response]]

\* A WebSocket: its readyState, and what the browser still has to deliver on
\* it.  fail: the connection must fail (close() before it was established);
\* errored: the error event has fired and the close event is due; closed: the
\* close event has fired; used: something was put on the wire through it.
NewSocket == [readyState |-> "CONNECTING", fail |-> FALSE, errored |-> FALSE,
              closed |-> FALSE, used |-> FALSE]

\* A socket whose close event has fired: no further event comes from it.
ClosedSocket == [readyState |-> "CLOSED", fail |-> FALSE, errored |-> FALSE,
                 closed |-> TRUE, used |-> FALSE]

\* WebSocket.send on socket s: throws InvalidStateError while CONNECTING, puts
\* the data on the wire while OPEN, discards it while CLOSING or CLOSED.
SendThrows(s)    == sockets[s].readyState = "CONNECTING"
SendTransmits(s) == sockets[s].readyState = "OPEN"

Wire(s, env) == [sock |-> s, env |-> env]

\* The sockets after s transmitted something (or not).
MarkUsed(socks, s, transmitted) ==
  IF transmitted THEN [socks EXCEPT ![s].used = TRUE] ELSE socks

\* ----------------------------------------------------------------- initial
Init ==
  /\ phase = "rendered"
  /\ accessToken \in {AppAccessToken(e, l) : e \in EnvTokens, l \in StoredTokens}
  /\ urlValid \in BOOLEAN
  /\ status = "Disconnected"
  /\ messages = <<>>
  /\ userInput = <<>>
  /\ isRecording = FALSE
  /\ currentPage = 1
  /\ hasMore = FALSE
  /\ wsRef = 0
  /\ mediaRecorderRef = 0
  /\ audioChunksRef = <<>>
  /\ currentChatItemIdRef = Null
  /\ sockets = <<>>
  /\ timers = <<>>
  /\ recorders = <<>>
  /\ pendingGUM = 0
  /\ sent = <<>>
  /\ thrown = "none"

\* ------------------------------------------------------ connection lifecycle

\* connectWebSocket: the state it leaves in status, wsRef and sockets.
ConnectWebSocket ==
  IF urlValid
  THEN /\ Len(sockets) < MaxSockets
       /\ sockets' = Append(sockets, NewSocket)
       /\ wsRef' = Len(sockets) + 1
       /\ status' = status
  ELSE /\ status' = "Connection failed"
       /\ UNCHANGED <<sockets, wsRef>>

\* useEffect(() => { connectWebSocket(); ... }, [])
Mount ==
  /\ phase = "rendered"
  /\ phase' = "mounted"
  /\ ConnectWebSocket
  /\ sent' = <<>> /\ thrown' = "none"
  /\ UNCHANGED <<accessToken, urlValid, messages, userInput, isRecording,
                 currentPage, hasMore, mediaRecorderRef, audioChunksRef,
                 currentChatItemIdRef, timers, recorders, pendingGUM>>

\* Mutant of Unmount: the cleanup also cancels the pending reconnects.
UnmountCancelling ==
  /\ phase = "mounted"
  /\ phase' = "unmounted"
  /\ sockets' =
       IF wsRef = 0 THEN sockets
       ELSE CASE sockets[wsRef].readyState = "CONNECTING" ->
                   [sockets EXCEPT ![wsRef].readyState = "CLOSING",
                                   ![wsRef].fail = TRUE]
              [] sockets[wsRef].readyState = "OPEN" ->
                   [sockets EXCEPT ![wsRef].readyState = "CLOSING"]
              [] OTHER -> sockets
  /\ timers' = <<>>
  /\ sent' = <<>> /\ thrown' = "none"
  /\ UNCHANGED <<accessToken, urlValid, uiVars, refVars, recorders,
                 pendingGUM>>

\* The effect's cleanup: wsRef.current?.close()
Unmount ==
  /\ phase = "mounted"
  /\ phase' = "unmounted"
  /\ sockets' =
       IF wsRef = 0 THEN sockets
       ELSE CASE sockets[wsRef].readyState = "CONNECTING" ->
                   [sockets EXCEPT ![wsRef].readyState = "CLOSING",
                                   ![wsRef].fail = TRUE]
              [] sockets[wsRef].readyState = "OPEN" ->
                   [sockets EXCEPT ![wsRef].readyState = "CLOSING"]
              [] OTHER -> sockets
  /\ sent' = <<>> /\ thrown' = "none"
  /\ UNCHANGED <<accessToken, urlValid, uiVars, refVars, timers, recorders,
                 pendingGUM>>

\* Mutant of SendsAuthenticate: the envelope is sent whatever the token.
SendsAuthenticateAlways == TRUE

\* if (accessToken) { ws.send(... 'authenticate' ...) }
SendsAuthenticate == Present(accessToken)

\* ws.onopen
OnOpen(s) ==
  /\ sockets[s].readyState = "CONNECTING"
  /\ LET transmitted == SendsAuthenticate
     IN  /\ sent' = IF transmitted THEN <<Wire(s, Authenticate(accessToken))>>
                    ELSE <<>>
         /\ sockets' = MarkUsed([sockets EXCEPT ![s].readyState = "OPEN"],
                                s, transmitted)
  /\ status' = "Connected"
  /\ thrown' = "none"
  /\ UNCHANGED <<envVars, messages, userInput, isRecording, currentPage,
                 hasMore, refVars, timers, recorders, pendingGUM>>

\* The server (or the network) starts closing an open socket.
BeginClose(s) ==
  /\ sockets[s].readyState = "OPEN"
  /\ sockets' = [sockets EXCEPT ![s].readyState = "CLOSING"]
  /\ sent' = <<>> /\ thrown' = "none"
  /\ UNCHANGED <<envVars, uiVars, refVars, timers, recorders, pendingGUM>>

\* Mutant of OnError: the error handler schedules the reconnect itself.
OnErrorReconnecting(s) ==
  /\ sockets[s].readyState # "CLOSED"
  /\ sockets' = [sockets EXCEPT ![s].readyState = "CLOSED",
                                ![s].errored = TRUE]
  /\ status' = "Error connecting"
  /\ timers' = Append(timers, ReconnectDelay)
  /\ sent' = <<>> /\ thrown' = "none"
  /\ UNCHANGED <<envVars, messages, userInput, isRecording, currentPage,
                 hasMore, refVars, recorders, pendingGUM>>

\* Mutant of OnError: the handler writes the short label 'Error'.
OnErrorShortLabel(s) ==
  /\ sockets[s].readyState # "CLOSED"
  /\ sockets' = [sockets EXCEPT ![s].readyState = "CLOSED",
                                ![s].errored = TRUE]
  /\ status' = "Error"
  /\ sent' = <<>> /\ thrown' = "none"
  /\ UNCHANGED <<envVars, messages, userInput, isRecording, currentPage,
                 hasMore, refVars, timers, recorders, pendingGUM>>

\* ws.onerror: the connection failed; the close event follows.
OnError(s) ==
  /\ sockets[s].readyState # "CLOSED"
  /\ sockets' = [sockets EXCEPT ![s].readyState = "CLOSED",
                                ![s].errored = TRUE]
  /\ status' = "Error connecting"
  /\ sent' = <<>> /\ thrown' = "none"
  /\ UNCHANGED <<envVars, messages, userInput, isRecording, currentPage,
                 hasMore, refVars, timers, recorders, pendingGUM>>

\* Mutant of ScheduleReconnect: a normal closure reconnects too.
ScheduleReconnectAlways(code) == Append(timers, ReconnectDelay)

\* Mutant of ScheduleReconnect: an abnormal closure arms two timers.
ScheduleReconnectTwice(code) ==
  IF code # NormalClosure
  THEN Append(Append(timers, ReconnectDelay), ReconnectDelay)
  ELSE timers

\* The timers after ws.onclose ran for a close event with this code.
ScheduleReconnect(code) ==
  IF code # NormalClosure THEN Append(timers, ReconnectDelay) ELSE timers

\* Mutant of OnClose: the close handler leaves the status as it was.
OnCloseKeepingStatus(s, code) ==
  /\ ~sockets[s].closed
  /\ \/ sockets[s].errored /\ code = AbnormalClosure
     \/ /\ ~sockets[s].errored /\ ~sockets[s].fail
        /\ sockets[s].readyState \in {"OPEN", "CLOSING"}
  /\ sockets' = [sockets EXCEPT ![s] = ClosedSocket]
  /\ timers' = ScheduleReconnect(code)
  /\ sent' = <<>> /\ thrown' = "none"
  /\ UNCHANGED <<envVars, uiVars, refVars, recorders, pendingGUM>>

\* ws.onclose
OnClose(s, code) ==
  /\ ~sockets[s].closed
  /\ \/ sockets[s].errored /\ code = AbnormalClosure
     \/ /\ ~sockets[s].errored /\ ~sockets[s].fail
        /\ sockets[s].readyState \in {"OPEN", "CLOSING"}
  /\ sockets' = [sockets EXCEPT ![s] = ClosedSocket]
  /\ status' = "Disconnected"
  /\ timers' = ScheduleReconnect(code)
  /\ sent' = <<>> /\ thrown' = "none"
  /\ UNCHANGED <<envVars, messages, userInput, isRecording, currentPage,
                 hasMore, refVars, recorders, pendingGUM>>

\* Time passes: every pending timer gets TickMs closer to firing.
Tick ==
  /\ timers # <<>>
  /\ \A i \in 1..Len(timers) : timers[i] > 0
  /\ timers' = [i \in 1..Len(timers) |-> timers[i] - TickMs]
  /\ sent' = <<>> /\ thrown' = "none"
  /\ UNCHANGED <<envVars, uiVars, refVars, sockets, recorders, pendingGUM>>

RemoveAt(seq, i) == SubSeq(seq, 1, i - 1) \o SubSeq(seq, i + 1, Len(seq))

\* A reconnect timer fires: connectWebSocket runs again.
TimerFires(i) ==
  /\ timers[i] = 0
  /\ timers' = RemoveAt(timers, i)
  /\ ConnectWebSocket
  /\ sent' = <<>> /\ thrown' = "none"
  /\ UNCHANGED <<envVars, messages, userInput, isRecording, currentPage,
                 hasMore, mediaRecorderRef, audioChunksRef,
                 currentChatItemIdRef, recorders, pendingGUM>>

\* ---------------------------------------------------------- message dispatch

\* Sequences over S of length at most n.
SeqsUpTo(S, n) == UNION {[1..k -> S] : k \in 0..n}

\* A page of the chat lists each of its items once.
Distinct(seq) == \A i, j \in 1..Len(seq) : seq[i] = seq[j] => i = j

\* data.data.chat_items of an initial_chat_data envelope: absent, or a page.
ChatPages == [chat_items : {l \in SeqsUpTo(ChatItems, MaxMessages) : Distinct(l)},
              has_more : BOOLEAN, current_page : 1..MaxPage]

\* An optional value is a set with at most one element.
Some(x)    == {x}
None       == {}
TheOne(o)  == CHOOSE x \in o : TRUE

Inbound ==
  [event : {"initial_chat_data"},
   chat_items : {None} \cup {Some(p) : p \in ChatPages}]
  \cup [event : ItemEvents, chat_item : ChatItems]
  \cup [event : OtherTags]

\* Mutant of AppendItem: the item is put in front.
PrependItem(prev, item) == <<item>> \o prev

\* The message list after setMessages(prev => [...prev, item]).
AppendItem(prev, item) == Append(prev, item)

\* Mutant of ReplaceMessages: the page is merged into the list.
MergeMessages(prev, items) == prev \o items

\* The message list after setMessages(data.data.chat_items.chat_items).
ReplaceMessages(prev, items) == items

\* Mutant of HandleMessage: an unhandled tag clears the correlation id.
HandleMessageResetting(ev) ==
  IF ev.event = "initial_chat_data"
  THEN IF ev.chat_items # None
       THEN /\ messages' = ReplaceMessages(messages, TheOne(ev.chat_items).chat_items)
            /\ hasMore' = TheOne(ev.chat_items).has_more
            /\ currentPage' = TheOne(ev.chat_items).current_page
            /\ UNCHANGED currentChatItemIdRef
       ELSE UNCHANGED <<messages, hasMore, currentPage, currentChatItemIdRef>>
  ELSE IF ev.event = "user_response_processed" \/ ev.event = "new_question"
  THEN /\ Len(messages) < MaxMessages
       /\ messages' = AppendItem(messages, ev.chat_item)
       /\ currentChatItemIdRef' = ev.chat_item.id
       /\ UNCHANGED <<hasMore, currentPage>>
  ELSE /\ currentChatItemIdRef' = Null
       /\ UNCHANGED <<messages, hasMore, currentPage>>

\* handleMessage's effect on messages, hasMore, currentPage and the
\* correlation id, for the parsed envelope ev.
HandleMessage(ev) ==
  IF ev.event = "initial_chat_data"
  THEN IF ev.chat_items # None
       THEN /\ messages' = ReplaceMessages(messages, TheOne(ev.chat_items).chat_items)
            /\ hasMore' = TheOne(ev.chat_items).has_more
            /\ currentPage' = TheOne(ev.chat_items).current_page
            /\ UNCHANGED currentChatItemIdRef
       ELSE UNCHANGED <<messages, hasMore, currentPage, currentChatItemIdRef>>
  ELSE IF ev.event = "user_response_processed" \/ ev.event = "new_question"
  THEN /\ Len(messages) < MaxMessages
       /\ messages' = AppendItem(messages, ev.chat_item)
       /\ currentChatItemIdRef' = ev.chat_item.id
       /\ UNCHANGED <<hasMore, currentPage>>
  ELSE UNCHANGED <<messages, hasMore, currentPage, currentChatItemIdRef>>

\* ws.onmessage = handleMessage, for a message event on socket s.
OnMessage(s, ev) ==
  /\ sockets[s].readyState = "OPEN"
  /\ HandleMessage(ev)
  /\ sent' = <<>> /\ thrown' = "none"
  /\ UNCHANGED <<envVars, status, userInput, isRecording, wsRef,
                 mediaRecorderRef, audioChunksRef, sockets, timers, recorders,
                 pendingGUM>>

\* ------------------------------------------------------- response submission

\* onChange={(e) => setUserInput(e.target.value)}
SetUserInput(v) ==
  /\ phase = "mounted"
  /\ v # userInput
  /\ userInput' = v
  /\ sent' = <<>> /\ thrown' = "none"
  /\ UNCHANGED <<envVars, status, messages, isRecording, currentPage, hasMore,
                 refVars, sockets, timers, recorders, pendingGUM>>

\* wsRef.current?.readyState === WebSocket.OPEN
SocketOpen == wsRef # 0 /\ sockets[wsRef].readyState = "OPEN"

\* Mutant of CanSendText: the input is tested untrimmed.
CanSendTextUntrimmed ==
  Truthy(userInput) /\ Present(currentChatItemIdRef) /\ SocketOpen

\* The condition under which sendTextResponse sends.
CanSendText ==
  Truthy(Trim(userInput)) /\ Present(currentChatItemIdRef) /\ SocketOpen

\* Mutant of SendTextResponse: the correlation id is cleared after the send.
SendTextResponseClearing ==
  /\ phase = "mounted"
  /\ IF CanSendText
     THEN /\ sent' = <<Wire(wsRef, SubmitUserResponse(currentChatItemIdRef,
                                                      Trim(userInput)))>>
          /\ sockets' = MarkUsed(sockets, wsRef, TRUE)
          /\ userInput' = <<>>
          /\ currentChatItemIdRef' = Null
     ELSE /\ sent' = <<>>
          /\ UNCHANGED <<sockets, userInput, currentChatItemIdRef>>
  /\ thrown' = "none"
  /\ UNCHANGED <<envVars, status, messages, isRecording, currentPage, hasMore,
                 wsRef, mediaRecorderRef, audioChunksRef, timers, recorders,
                 pendingGUM>>

\* sendTextResponse
SendTextResponse ==
  /\ phase = "mounted"
  /\ IF CanSendText
     THEN /\ sent' = <<Wire(wsRef, SubmitUserResponse(currentChatItemIdRef,
                                                      Trim(userInput)))>>
          /\ sockets' = MarkUsed(sockets, wsRef, TRUE)
          /\ userInput' = <<>>
     ELSE /\ sent' = <<>>
          /\ UNCHANGED <<sockets, userInput>>
  /\ thrown' = "none"
  /\ UNCHANGED <<envVars, status, messages, isRecording, currentPage, hasMore,
                 refVars, timers, recorders, pendingGUM>>

\* loadMoreMessages (the button is rendered only while hasMore)
LoadMoreMessages ==
  /\ phase = "mounted"
  /\ hasMore
  /\ IF SocketOpen
     THEN /\ currentPage < MaxPage
          /\ sent' = <<Wire(wsRef, GetChatItems(currentPage + 1))>>
          /\ sockets' = MarkUsed(sockets, wsRef, TRUE)
          /\ currentPage' = currentPage + 1
     ELSE /\ sent' = <<>>
          /\ UNCHANGED <<sockets, currentPage>>
  /\ thrown' = "none"
  /\ UNCHANGED <<envVars, status, messages, userInput, isRecording, hasMore,
                 refVars, timers, recorders, pendingGUM>>

\* ------------------------------------------------------------ audio pipeline

\* A MediaRecorder with the stream it records.  phase is the progress of its
\* stop pipeline: "live" (not stopped), "stopQueued" (stop() called),
\* "encoding" (onstop ran up to the await), "done" (onstop ran to its end),
\* "failed" (onstop threw).  blob is onstop's local audioBlob while it waits.
\* startedUnder is a history field, not a field of the program: the
\* correlation id at the time of mediaRecorder.start(), kept so that
\* properties can compare it with the id the recording is sent under.
NewRecorder == [state |-> "recording", phase |-> "live", tracks |-> "live",
                blob |-> NewBlob(<<>>), startedUnder |-> currentChatItemIdRef]

\* mediaRecorderRef.current?.state === 'recording'
RefIsRecording ==
  mediaRecorderRef # 0 /\ recorders[mediaRecorderRef].state = "recording"

\* toggleRecording up to its first suspension point.
ToggleRecording ==
  /\ phase = "mounted"
  /\ IF RefIsRecording
     THEN /\ recorders' = [recorders EXCEPT
                             ![mediaRecorderRef].state = "inactive",
                             ![mediaRecorderRef].phase = "stopQueued"]
          /\ isRecording' = FALSE
          /\ UNCHANGED pendingGUM
     ELSE /\ Len(recorders) + pendingGUM < MaxRecorders
          /\ pendingGUM' = pendingGUM + 1
          /\ UNCHANGED <<recorders, isRecording>>
  /\ sent' = <<>> /\ thrown' = "none"
  /\ UNCHANGED <<envVars, status, messages, userInput, currentPage, hasMore,
                 refVars, sockets, timers>>

\* getUserMedia resolved: the rest of toggleRecording's try block.
GetUserMediaResolves ==
  /\ pendingGUM > 0
  /\ pendingGUM' = pendingGUM - 1
  /\ audioChunksRef' = <<>>
  /\ recorders' = Append(recorders, NewRecorder)
  /\ mediaRecorderRef' = Len(recorders) + 1
  /\ isRecording' = TRUE
  /\ sent' = <<>> /\ thrown' = "none"
  /\ UNCHANGED <<envVars, status, messages, userInput, currentPage, hasMore,
                 wsRef, currentChatItemIdRef, sockets, timers>>

\* getUserMedia rejected: the catch block logs and returns.
GetUserMediaRejects ==
  /\ pendingGUM > 0
  /\ pendingGUM' = pendingGUM - 1
  /\ sent' = <<>> /\ thrown' = "none"
  /\ UNCHANGED <<envVars, uiVars, refVars, sockets, timers, recorders>>

\* mediaRecorder.ondataavailable: audioChunksRef.current.push(event.data).
\* The chunk is tagged with the recorder that produced it.
OnDataAvailable(chunks, r) == Append(chunks, r)

\* The task stop() queues: it fires dataavailable with the recorded data and
\* then stop, which runs mediaRecorder.onstop up to
\* `await blobToBase64(audioBlob)`.
OnStop(r) ==
  /\ recorders[r].phase = "stopQueued"
  /\ audioChunksRef' = OnDataAvailable(audioChunksRef, r)
  /\ recorders' = [recorders EXCEPT ![r].phase = "encoding",
                                    ![r].blob = NewBlob(audioChunksRef')]
  /\ sent' = <<>> /\ thrown' = "none"
  /\ UNCHANGED <<envVars, uiVars, wsRef, mediaRecorderRef,
                 currentChatItemIdRef, sockets, timers, pendingGUM>>

\* blobToBase64 as resolved by reader.onloadend
BlobToBase64(blob) == StripAudioPrefix(ReadAsDataURL(blob))

\* Mutant of AudioEnvelope: the recording goes out under the first question
\* received rather than the current one.
AudioEnvelopeFirstQuestion(blob) ==
  SubmitUserResponse(IF messages = <<>> THEN Null ELSE messages[1].id,
                     <<AudioPrefix>> \o BlobToBase64(blob))

\* The envelope mediaRecorder.onstop builds after the await.
AudioEnvelope(blob) ==
  SubmitUserResponse(currentChatItemIdRef, <<AudioPrefix>> \o BlobToBase64(blob))

\* What becomes of recorder r's stream once onstop has resumed: the tracks
\* are stopped by the handler's last statement, which a throw skips.
TracksAfterStop(r, threw) ==
  IF threw THEN recorders[r].tracks ELSE "ended"

\* mediaRecorder.onstop after the await, the read having succeeded:
\* wsRef.current?.send(...), then stream.getTracks().forEach(stop).
OnEncoded(r) ==
  /\ recorders[r].phase = "encoding"
  /\ LET threw       == wsRef # 0 /\ SendThrows(wsRef)
         transmitted == wsRef # 0 /\ SendTransmits(wsRef)
     IN  /\ sent' = IF transmitted
                    THEN <<Wire(wsRef, AudioEnvelope(recorders[r].blob))>>
                    ELSE <<>>
         /\ sockets' = IF transmitted THEN MarkUsed(sockets, wsRef, TRUE)
                       ELSE sockets
         /\ thrown' = IF threw THEN "InvalidStateError" ELSE "none"
         /\ recorders' = [recorders EXCEPT
                            ![r].phase = IF threw THEN "failed" ELSE "done",
                            ![r].blob = NewBlob(<<>>),
                            ![r].tracks = TracksAfterStop(r, threw)]
  /\ UNCHANGED <<envVars, uiVars, refVars, timers, pendingGUM>>

\* reader.onerror = reject: the await throws and onstop ends there.
OnEncodeError(r) ==
  /\ recorders[r].phase = "encoding"
  /\ recorders' = [recorders EXCEPT
                     ![r].phase = "failed",
                     ![r].blob = NewBlob(<<>>),
                     ![r].tracks = TracksAfterStop(r, TRUE)]
  /\ sent' = <<>>
  /\ thrown' = "NotReadableError"
  /\ UNCHANGED <<envVars, uiVars, refVars, sockets, timers, pendingGUM>>

\* ------------------------------------------------------------- specification

\* The connection's own events: the socket callbacks and the reconnect timer.
ConnectionStep ==
  \/ Mount
  \/ Unmount
  \/ \E s \in 1..Len(sockets) : OnOpen(s)
  \/ \E s \in 1..Len(sockets) : BeginClose(s)
  \/ \E s \in 1..Len(sockets) : OnError(s)
  \/ \E s \in 1..Len(sockets), code \in CloseCodes : OnClose(s, code)
  \/ Tick
  \/ \E i \in 1..Len(timers) : TimerFires(i)

\* A session in which the user types: every handler but the recorder's.
NextChat ==
  \/ ConnectionStep
  \/ \E s \in 1..Len(sockets), ev \in Inbound : OnMessage(s, ev)
  \/ \E v \in Inputs : SetUserInput(v)
  \/ SendTextResponse
  \/ LoadMoreMessages

SpecChat == Init /\ [][NextChat]_vars

\* The envelopes that move the correlation id, and the unhandled ones.
ItemInbound == {ev \in Inbound : ev.event # "initial_chat_data"}

\* A session in which the user speaks: every handler but the text input's
\* and the pager's.
NextAudio ==
  \/ ConnectionStep
  \/ \E s \in 1..Len(sockets), ev \in ItemInbound : OnMessage(s, ev)
  \/ ToggleRecording
  \/ GetUserMediaResolves
  \/ GetUserMediaRejects
  \/ \E r \in 1..Len(recorders) : OnStop(r)
  \/ \E r \in 1..Len(recorders) : OnEncoded(r)
  \/ \E r \in 1..Len(recorders) : OnEncodeError(r)

SpecAudio == Init /\ [][NextAudio]_vars

\* The whole component: any handler may run.
Next == NextChat \/ NextAudio

Spec == Init /\ [][Next]_vars

\* ---------------------------------------------------------------- properties

Socks == 1..Len(sockets)
Recs  == 1..Len(recorders)

\* A string of blanks only (the empty string included).
Blank(s) == \A i \in 1..Len(s) : s[i] = " "

Blanks(n) == [i \in 1..n |-> " "]

\* r is s without its leading and trailing blanks.
IsTrimOf(r, s) ==
  /\ r # <<>> => r[1] # " " /\ r[Len(r)] # " "
  /\ \E i, j \in 0..Len(s) : s = Blanks(i) \o r \o Blanks(j)

\* wsRef refers to no socket, or to one that is not open.
SocketNotOpen == wsRef = 0 \/ sockets[wsRef].readyState # "OPEN"

\* C1: every close event with a code other than 1000 schedules exactly one
\* reconnect, due ReconnectDelay = 3000 ms later; a close event with code 1000
\* schedules none; either way status becomes 'Disconnected'.  A timer runs
\* connectWebSocket only once its whole delay has elapsed.
C1_CloseSchedulesOneReconnect ==
  [][/\ \A s \in Socks, code \in CloseCodes :
          OnClose(s, code) =>
            /\ status' = "Disconnected"
            /\ timers' = IF code # 1000 THEN Append(timers, 3000) ELSE timers
     /\ \A i \in 1..Len(timers) :
          TimerFires(i) => timers[i] = 0 /\ Len(timers') = Len(timers) - 1
     /\ \A i \in 1..Len(timers) : timers[i] > 0 =>
          Len(sockets') = Len(sockets) /\ Len(timers') >= Len(timers)
    ]_vars

\* C1 witness: a socket has closed abnormally and its reconnect is pending
\* with the full delay ahead.
C1_Witness ==
  /\ \E s \in Socks : sockets[s].closed
  /\ timers = <<3000>>
  /\ status = "Disconnected"

\* C2: a new_question or user_response_processed event appends exactly its
\* chat item at the end of the message list and makes its id the correlation
\* id; hasMore, currentPage, status and the text input stay as they were.
C2_ItemEventAppends ==
  [][\A s \in Socks, ev \in Inbound :
       (ev.event \in ItemEvents /\ OnMessage(s, ev)) =>
         /\ Len(messages') = Len(messages) + 1
         /\ SubSeq(messages', 1, Len(messages)) = messages
         /\ messages'[Len(messages')] = ev.chat_item
         /\ currentChatItemIdRef' = ev.chat_item.id
         /\ UNCHANGED <<hasMore, currentPage, status, userInput>>
    ]_vars

\* C2 witness: an item was appended behind an earlier, different one.
C2_Witness ==
  /\ Len(messages) = 2
  /\ messages[1].id # messages[2].id
  /\ currentChatItemIdRef = messages[2].id

\* C3 as stated: every initial_chat_data event replaces the list by the
\* payload's items (none, when the payload carries no page), so that nothing
\* of the previous list survives.
C3_EveryInitialDataReplaces ==
  [][\A s \in Socks, ev \in Inbound :
       (ev.event = "initial_chat_data" /\ OnMessage(s, ev)) =>
         messages' = IF ev.chat_items = None THEN <<>>
                     ELSE TheOne(ev.chat_items).chat_items
    ]_vars

\* C3 (amended): an initial_chat_data event that carries a chat_items page
\* replaces the message list by the page's items and sets hasMore and
\* currentPage from it, whatever they were; one that carries none leaves all
\* three as they were.  The correlation id is not touched either way.
C3_InitialDataReplaces ==
  [][\A s \in Socks : sockets[s].readyState = "OPEN" =>
       \A ev \in Inbound :
         (ev.event = "initial_chat_data" /\ OnMessage(s, ev)) =>
           /\ ev.chat_items # None =>
                \E page \in ev.chat_items :
                  /\ messages' = page.chat_items
                  /\ hasMore' = page.has_more
                  /\ currentPage' = page.current_page
           /\ ev.chat_items = None =>
                UNCHANGED <<messages, hasMore, currentPage>>
           /\ UNCHANGED currentChatItemIdRef
    ]_vars

\* C3 witness: a page replaced a list: the correlation id, which only an item
\* event sets, names an item that is no longer in the list.
C3_Witness ==
  /\ Present(currentChatItemIdRef)
  /\ messages # <<>>
  /\ \A i \in 1..Len(messages) : messages[i].id # currentChatItemIdRef
  /\ hasMore /\ currentPage = MaxPage

\* C4: sendTextResponse with a blank input, or no correlation id, or a socket
\* that is not open sends nothing and leaves the text input, the message
\* list, the correlation id and the status as they were.
C4_SendTextNoOp ==
  [][(/\ SendTextResponse
      /\ \/ Blank(userInput)
         \/ currentChatItemIdRef = Null
         \/ SocketNotOpen) =>
       /\ sent' = <<>>
       /\ thrown' = "none"
       /\ UNCHANGED <<userInput, messages, currentChatItemIdRef, status>>
    ]_vars

\* C4 witness: a non-empty but blank input with a question pending on an open
\* socket, and a real answer typed while the socket is closed.
C4_Witness ==
  /\ phase = "mounted"
  /\ userInput = <<" ", "a", " ">>
  /\ Present(currentChatItemIdRef)
  /\ wsRef # 0 /\ sockets[wsRef].readyState = "CLOSED"
  /\ sent = <<>>

\* C5: once a recorder's stop handler has run, to its end or to a throw, the
\* tracks of that recording's stream are stopped.
C5_StopHandlerStopsTracks ==
  \A r \in Recs :
    recorders[r].phase \in {"done", "failed"} => recorders[r].tracks = "ended"

\* C6: at most one recorder is recording, and a recorder that is recording is
\* the one mediaRecorderRef holds, so that a toggle can stop it.
C6_OneRecording ==
  /\ Cardinality({r \in Recs : recorders[r].state = "recording"}) <= 1
  /\ \A r \in Recs : recorders[r].state = "recording" => mediaRecorderRef = r

\* C7: sendTextResponse with a non-blank input, a correlation id and an open
\* socket sends exactly one submit_user_response envelope, on the current
\* socket, with the correlation id and the trimmed input, and clears the
\* input; the correlation id and the message list stay as they were.
C7_SendTextSends ==
  [][(/\ SendTextResponse
      /\ ~Blank(userInput)
      /\ currentChatItemIdRef # Null
      /\ ~SocketNotOpen) =>
       /\ Len(sent') = 1
       /\ sent'[1].sock = wsRef
       /\ sent'[1].env.action = "submit_user_response"
       /\ sent'[1].env.payload.chat_item_id = currentChatItemIdRef
       /\ IsTrimOf(sent'[1].env.payload.response, userInput)
       /\ sent'[1].env.payload.response # <<>>
       /\ userInput' = <<>>
       /\ thrown' = "none"
       /\ UNCHANGED <<currentChatItemIdRef, messages>>
    ]_vars

\* C7 witness: a text answer is on the wire under the pending question's id.
C7_Witness ==
  /\ Len(sent) = 1
  /\ sent[1].env.action = "submit_user_response"
  /\ sent[1].env.payload.response = <<"a">>
  /\ sent[1].env.payload.chat_item_id = currentChatItemIdRef
  /\ userInput = <<>>

\* C8: on every open event the authenticate envelope, with the token, is sent
\* if and only if a token is present; nothing was sent on that socket before;
\* status is 'Connected' afterwards.
C8_OpenAuthenticates ==
  [][\A s \in Socks :
       OnOpen(s) =>
         /\ ~sockets[s].used
         /\ sent' = IF accessToken # Null
                    THEN <<[sock |-> s,
                            env |-> [action |-> "authenticate",
                                     payload |-> [token |-> accessToken]]]>>
                    ELSE <<>>
         /\ status' = "Connected"
    ]_vars

\* C8 witness: a reconnection's socket has opened and authenticated.
C8_Witness ==
  /\ Len(sockets) = 2
  /\ sockets[2].readyState = "OPEN"
  /\ Len(sent) = 1 /\ sent[1].sock = 2 /\ sent[1].env.action = "authenticate"
  /\ status = "Connected"

\* C9: a response submitted, as text or as audio, while the socket is not open
\* is dropped silently: nothing goes on the wire and no error is raised.
C9_NotOpenDropsSilently ==
  [][/\ (SendTextResponse /\ SocketNotOpen) =>
          sent' = <<>> /\ thrown' = "none"
     /\ \A r \in Recs :
          (OnEncoded(r) /\ SocketNotOpen) =>
            sent' = <<>> /\ thrown' = "none"
    ]_vars

\* C10: an envelope with an unhandled tag changes nothing: the message list,
\* hasMore, currentPage, the correlation id, the status and the text input
\* stay as they were, nothing is sent and no error is raised.
C10_UnknownTagIgnored ==
  [][\A s \in Socks, ev \in Inbound :
       (ev.event \notin {"initial_chat_data", "user_response_processed",
                         "new_question"} /\ OnMessage(s, ev)) =>
         /\ UNCHANGED <<messages, hasMore, currentPage, currentChatItemIdRef,
                        status, userInput>>
         /\ sent' = <<>>
         /\ thrown' = "none"
    ]_vars

\* C10 witness: an open socket, on which such an envelope can arrive, in a
\* state where every variable the claim names differs from its initial value.
C10_Witness ==
  /\ \E s \in Socks : sockets[s].readyState = "OPEN"
  /\ messages # <<>> /\ hasMore /\ currentPage # 1
  /\ Present(currentChatItemIdRef)
  /\ status = "Connected" /\ userInput # <<>>

\* The typing session under the event loop's guarantees: time passes while a
\* timer waits, and a timer that is due runs its callback.
SpecChatFair ==
  /\ SpecChat
  /\ WF_vars(Tick)
  /\ WF_vars(\E i \in 1..Len(timers) : TimerFires(i))

C12_ErrorDoesNotReconnect ==
  /\ [][\A s \in Socks : OnError(s) =>
          /\ status' = "Error connecting"
          /\ timers' = timers
          /\ Len(sockets') = Len(sockets)
          /\ wsRef' = wsRef]_vars
  /\ [][Len(timers') > Len(timers) =>
          \E s \in Socks, code \in CloseCodes :
             OnClose(s, code) /\ code # NormalClosure]_vars
  /\ [][\A s \in Socks, code \in CloseCodes :
          sockets[s].errored /\ OnClose(s, code) =>
             /\ status' = "Disconnected"
             /\ timers' = Append(timers, ReconnectDelay)]_vars

\* C12 witness: an error event was delivered, its close event is still to
\* come, the status is the error label and no reconnect is pending.
C12_Witness ==
  /\ status = "Error connecting"
  /\ timers = <<>>
  /\ \E s \in Socks : sockets[s].errored /\ ~sockets[s].closed

\* C13 as stated: the status is always one of Disconnected, Connected, Error,
\* Connection failed, and it is Disconnected before the component mounts.
C13_StatusLabelsAsStated ==
  /\ status \in {"Disconnected", "Connected", "Error", "Connection failed"}
  /\ phase = "rendered" => status = "Disconnected"

\* C13: the status is always one of Disconnected, Connected, Error connecting,
\* Connection failed, and it is Disconnected before the component mounts.
C13_StatusLabels ==
  /\ status \in {"Disconnected", "Connected", "Error connecting",
                 "Connection failed"}
  /\ phase = "rendered" => status = "Disconnected"

\* C13 witness: the error handler of the current socket has written its label.
C13_Witness ==
  /\ wsRef # 0
  /\ sockets[wsRef].errored
  /\ status = "Error connecting"

\* The item events: the envelopes that carry a question or a processed answer.
ItemEventsInbound == {ev \in Inbound : ev.event \in ItemEvents}

\* C14: the correlation id is null until the first new_question or
\* user_response_processed event; each such event sets it to the event's
\* item id; and no other step (initial_chat_data, other tags, socket open,
\* close, error, reconnect, loadMoreMessages, a text or audio send) changes it.
C14_CorrelationIdFollowsItemEvents ==
  /\ [](phase = "rendered" => currentChatItemIdRef = Null)
  /\ [][\A s \in Socks : \A ev \in ItemEventsInbound :
          OnMessage(s, ev) => currentChatItemIdRef' = ev.chat_item.id]_vars
  /\ [][currentChatItemIdRef' # currentChatItemIdRef =>
          \E s \in Socks : \E ev \in ItemEventsInbound : OnMessage(s, ev)]_vars

\* C14 witness: a response was sent under the id of the second item event
\* received, and the id is still in place after the send.
C14_Witness ==
  /\ Len(messages) = 2
  /\ messages[1].id # messages[2].id
  /\ currentChatItemIdRef = messages[2].id
  /\ Len(sent) = 1
  /\ sent[1].env.action = "submit_user_response"

C16_NoSocketAfterUnmount ==
  [][phase = "unmounted" => Len(sockets') = Len(sockets)]_vars

\* The sockets whose close event has not been delivered yet.
Undelivered == {s \in Socks : ~sockets[s].closed}

\* C17: the sockets that have not delivered their close event and the
\* pending reconnect timers are, taken together, at most one; wsRef refers to
\* the most recently created socket; every envelope goes to that socket.
C17_SingleConnectionChain ==
  /\ Cardinality(Undelivered) + Len(timers) <= 1
  /\ wsRef = Len(sockets)
  /\ \A i \in 1..Len(sent) : sent[i].sock = Len(sockets)

\* C17 witness: the first socket has closed and been replaced through its
\* timer, and an envelope has just gone out on the replacement.
C17_Witness ==
  /\ Len(sockets) = 2
  /\ sockets[1].closed
  /\ sockets[2].readyState = "OPEN"
  /\ timers = <<>>
  /\ Len(sent) = 1
  /\ sent[1].sock = 2

\* The order of a recording's pipeline: stop, then encode, then send.
PipelineOrder == {<<"live", "stopQueued">>, <<"stopQueued", "encoding">>,
                  <<"encoding", "done">>, <<"encoding", "failed">>}

\* C18: the envelope of a recording carries the correlation id current at
\* the moment of the send, and the encoded form of that recording's blob; a
\* recording advances only stop -> encode -> send, and a response envelope
\* leaves only in the step that completes a recording's encoding.
C18_AudioSentUnderCurrentId ==
  /\ [][\A r \in Recs : OnEncoded(r) /\ sent' # <<>> =>
          /\ Len(sent') = 1
          /\ sent'[1].env.action = "submit_user_response"
          /\ sent'[1].env.payload.chat_item_id = currentChatItemIdRef
          /\ sent'[1].env.payload.response =
               <<AudioPrefix>> \o BlobToBase64(recorders[r].blob)]_vars
  /\ [][\A r \in Recs : recorders'[r].phase # recorders[r].phase =>
          <<recorders[r].phase, recorders'[r].phase>> \in PipelineOrder]_vars
  /\ [][(\E i \in 1..Len(sent') :
            sent'[i].env.action = "submit_user_response") =>
          \E r \in Recs : /\ recorders[r].phase = "encoding"
                          /\ recorders'[r].phase = "done"
                          /\ OnEncoded(r)]_vars

\* C18 witness: a recording started under one question has just been sent
\* under another, which arrived before its encoding completed.
C18_Witness ==
  \E r \in Recs :
     /\ recorders[r].phase = "done"
     /\ recorders[r].startedUnder # Null
     /\ Len(sent) = 1
     /\ sent[1].env.action = "submit_user_response"
     /\ sent[1].env.payload.chat_item_id # Null
     /\ sent[1].env.payload.chat_item_id # recorders[r].startedUnder

\* C19: loadMoreMessages with the socket open puts exactly one get_chat_items
\* envelope on the wire, for the current page plus one, and adds exactly one
\* to currentPage; with the socket not open it sends nothing and leaves
\* currentPage alone; either way the message list and the correlation id
\* stay as they were.
C19_LoadMoreRequestsNextPage ==
  [][LoadMoreMessages =>
       /\ IF wsRef # 0 /\ sockets[wsRef].readyState = "OPEN"
          THEN /\ Len(sent') = 1
               /\ sent'[1].sock = wsRef
               /\ sent'[1].env = [action |-> "get_chat_items",
                                  payload |-> [page |-> currentPage + 1]]
               /\ currentPage' = currentPage + 1
          ELSE /\ sent' = <<>>
               /\ currentPage' = currentPage
       /\ messages' = messages
       /\ currentChatItemIdRef' = currentChatItemIdRef]_vars

\* C19 witness: the request for page 2 has just gone out from page 1, with
\* messages on screen and a correlation id in place.
C19_Witness ==
  /\ Len(sent) = 1
  /\ sent[1].env.action = "get_chat_items"
  /\ sent[1].env.payload.page = 2
  /\ currentPage = 2
  /\ messages # <<>>
  /\ currentChatItemIdRef # Null

\* C20: while the status is 'Connected' the socket wsRef refers to has had
\* its open event and has delivered neither an error nor a close event; and
\* the open, error and close handlers only ever run for the most recently
\* created socket, so a superseded socket cannot write the status.
C20_ConnectedMeansCurrentSocketOpen ==
  /\ [](status = "Connected" =>
          /\ wsRef # 0
          /\ sockets[wsRef].readyState \in {"OPEN", "CLOSING"}
          /\ ~sockets[wsRef].errored
          /\ ~sockets[wsRef].closed)
  /\ [][\A s \in Socks :
          (OnOpen(s) \/ OnError(s) \/ \E code \in CloseCodes : OnClose(s, code))
             => s = Len(sockets)]_vars

\* C20 witness: the status is 'Connected' on a socket created by a reconnect,
\* its predecessor having closed.
C20_Witness ==
  /\ status = "Connected"
  /\ wsRef = 2
  /\ sockets[1].closed
  /\ sockets[2].readyState = "OPEN"

====
